---- MODULE Spec2Model ----
(***************************************************************************)
(* Transfer strategy engine: sell phase, buy phase, age progression and    *)
(* KPI computation of the transfer-window simulation (strategy/rules.py,   *)
(* strategy/market.py, strategy/kpi.py, strategy/engine.py).               *)
(*                                                                         *)
(* A player is a record [player_id, age, position, market_value]; an       *)
(* absent Optional[int] is None.  Money is whole euros.                    *)
(***************************************************************************)
EXTENDS Integers, Sequences, FiniteSets, TLC

\* An absent age or market value (Optional[int] = None).
None == -1

\* get_position_group's result for an absent or unmapped position.
NoGroup == "NONE"

(***************************************************************************)
(* Bounds of the explored inputs.                                          *)
(***************************************************************************)
\* Players a bloated group holds above its bloat target.
MaxOver == 4
\* Entries of the largest market pool list.
MaxPool == 6

(***************************************************************************)
(* Python idioms.                                                          *)
(***************************************************************************)
\* `x or d` on an Optional[int]: None and 0 are both falsy.
OrElse(x, d) == IF x = None \/ x = 0 THEN d ELSE x

Min2(a, b) == IF a <= b THEN a ELSE b

Max2(a, b) == IF a >= b THEN a ELSE b

\* int(v * (pct/100)) for a whole number v: the product truncated toward zero.
\* Written so that v * pct never leaves 32 bits.
IntPct(v, pct) ==
    LET a == IF v >= 0 THEN v ELSE -v
        q == (a \div 100) * pct + ((a % 100) * pct) \div 100
    IN  IF v >= 0 THEN q ELSE -q

\* The largest power of two that is at most n (n >= 1).
RECURSIVE Pow2Floor(_)
Pow2Floor(n) == IF n < 2 THEN 1 ELSE 2 * Pow2Floor(n \div 2)

\* int(v * 1.15) in IEEE-754 doubles.  The double nearest 1.15 is
\* 1.15 - 0.4 * 2^-52, so when v * 1.15 is a whole number n the product
\* rounds to the double below n (and int() gives n - 1) exactly when
\* 0.4 * v exceeds half the spacing of doubles at n.  The other ratios of the
\* program (0.10, 0.25, 0.40, 0.50, 0.60, 0.80, 0.85, 0.90, 0.95, 1.03, 1.10)
\* never round below a whole product.
IntMul115(v) ==
    LET n == IntPct(v, 115)
    IN  IF v > 0 /\ (v % 20) = 0 /\ 4 * v > 5 * Pow2Floor(n)
        THEN n - 1 ELSE n

\* Insertion sort on indices: acc holds the indices below i ordered by
\* ascending key, equal keys in index order; i goes behind every index whose
\* key is at most its own.
RECURSIVE InsertIdxAsc(_, _, _)
InsertIdxAsc(keys, i, acc) ==
    IF i > Len(keys) THEN acc
    ELSE LET pos == Cardinality({j \in 1..Len(acc) : keys[acc[j]] <= keys[i]})
         IN  InsertIdxAsc(keys, i + 1,
                 SubSeq(acc, 1, pos) \o <<i>> \o SubSeq(acc, pos + 1, Len(acc)))

RECURSIVE InsertIdxDesc(_, _, _)
InsertIdxDesc(keys, i, acc) ==
    IF i > Len(keys) THEN acc
    ELSE LET pos == Cardinality({j \in 1..Len(acc) : keys[acc[j]] >= keys[i]})
         IN  InsertIdxDesc(keys, i + 1,
                 SubSeq(acc, 1, pos) \o <<i>> \o SubSeq(acc, pos + 1, Len(acc)))

\* The indices of keys, ordered by ascending key, equal keys in index order
\* (sorted(), which is stable).
SortedIdxAsc(keys) == InsertIdxAsc(keys, 1, <<>>)

\* Mutant of SortedIdxDesc: the ascending order reversed, which turns equal
\* keys around as well.
SortedIdxDesc_TiesReversed(keys) ==
    LET asc == SortedIdxAsc(keys)
    IN  [k \in 1..Len(asc) |-> asc[Len(asc) + 1 - k]]

\* sorted(..., reverse=True): descending key, equal keys still in index order.
SortedIdxDesc(keys) == InsertIdxDesc(keys, 1, <<>>)

\* [x for x in s if Test(x)], as the subsequence of indices.
RECURSIVE KeepIdx(_, _, _)
KeepIdx(flags, i, acc) ==
    IF i > Len(flags) THEN acc
    ELSE KeepIdx(flags, i + 1, IF flags[i] THEN Append(acc, i) ELSE acc)

\* list.remove(x): drops the first element equal to x.
RECURSIVE RemoveFirstFrom(_, _, _)
RemoveFirstFrom(s, x, i) ==
    IF i > Len(s) THEN s
    ELSE IF s[i] = x
         THEN [k \in 1..(Len(s) - 1) |-> IF k < i THEN s[k] ELSE s[k + 1]]
         ELSE RemoveFirstFrom(s, x, i + 1)

\* Mutant of ListRemove: the removal is left out.
ListRemove_Kept(s, x) == s

ListRemove(s, x) == RemoveFirstFrom(s, x, 1)

RECURSIVE SumSeq(_, _)
SumSeq(s, i) == IF i > Len(s) THEN 0 ELSE s[i] + SumSeq(s, i + 1)

(***************************************************************************)
(* strategy/market.py                                                      *)
(***************************************************************************)
POSITION_MAP(position) ==
    CASE position = "Goalkeeper"         -> "GK"
      [] position = "Sweeper"            -> "DEF"
      [] position = "Centre-Back"        -> "DEF"
      [] position = "Left-Back"          -> "DEF"
      [] position = "Right-Back"         -> "DEF"
      [] position = "Defensive Midfield" -> "MID"
      [] position = "Central Midfield"   -> "MID"
      [] position = "Left Midfield"      -> "MID"
      [] position = "Right Midfield"     -> "MID"
      [] position = "Attacking Midfield" -> "MID"
      [] position = "Left Winger"        -> "ATT"
      [] position = "Right Winger"       -> "ATT"
      [] position = "Second Striker"     -> "ATT"
      [] position = "Centre-Forward"     -> "ATT"
      [] OTHER                           -> NoGroup

\* The groups in the iteration order of the POSITION_THRESHOLDS dict.
GroupOrder == <<"GK", "DEF", "MID", "ATT">>

POSITION_THRESHOLDS ==
    ("GK"  :> [min |-> 2, max |-> 3])  @@
    ("DEF" :> [min |-> 5, max |-> 12]) @@
    ("MID" :> [min |-> 5, max |-> 12]) @@
    ("ATT" :> [min |-> 3, max |-> 10])

\* Mutant of get_position_group: the label "Midfield", which is not in the
\* table, taken for a midfielder.
get_position_group_LooseMidfield(position) ==
    IF position = "" THEN NoGroup
    ELSE IF position = "Midfield" THEN "MID" ELSE POSITION_MAP(position)

\* An absent position is the empty string; `not position` holds of both.
get_position_group(position) ==
    IF position = "" THEN NoGroup ELSE POSITION_MAP(position)

estimate_salary(market_value) ==
    IF market_value = None \/ market_value = 0 THEN 0
    ELSE IntPct(market_value, 10)

\* The pool of a TransferMarket is a dict player_id -> Player, kept here as the
\* sequence of its values in insertion order.  Storing under a key already
\* present replaces the value and keeps the key's place.
DictPut(pool, player) ==
    IF \E k \in 1..Len(pool) : pool[k].player_id = player.player_id
    THEN [k \in 1..Len(pool) |->
             IF pool[k].player_id = player.player_id THEN player ELSE pool[k]]
    ELSE Append(pool, player)

RECURSIVE DictFromList(_, _, _)
DictFromList(players, i, pool) ==
    IF i > Len(players) THEN pool
    ELSE DictFromList(players, i + 1, DictPut(pool, players[i]))

\* TransferMarket.__init__: {p.player_id: p for p in players}.
TransferMarketInit(players) == DictFromList(players, 1, <<>>)

\* TransferMarket.get_candidates.
get_candidates(pool, position_group, max_fee) ==
    LET keep == [k \in 1..Len(pool) |->
                    /\ get_position_group(pool[k].position) = position_group
                    /\ ~(OrElse(pool[k].market_value, 0) > max_fee)]
        idx  == KeepIdx(keep, 1, <<>>)
        cand == [k \in 1..Len(idx) |-> pool[idx[k]]]
        ord  == SortedIdxDesc([k \in 1..Len(cand) |-> OrElse(cand[k].market_value, 0)])
    IN  [k \in 1..Len(cand) |-> cand[ord[k]]]

\* TransferMarket.remove_player: self._pool.pop(player_id, None).
remove_player(pool, player_id) ==
    LET keep == [k \in 1..Len(pool) |-> pool[k].player_id # player_id]
        idx  == KeepIdx(keep, 1, <<>>)
    IN  [k \in 1..Len(idx) |-> pool[idx[k]]]

(***************************************************************************)
(* strategy/rules.py                                                       *)
(***************************************************************************)
\* SELL_FEE_FACTOR = 0.85, in percent.
SELL_FEE_PCT == 85

PROSPECT_AGE == 21

PROSPECT_VALUE_THRESHOLD == 3000000

MAX_DECLINE_SELLS == 6

MAX_BLOAT_SELLS == 6

\* _MODE_PARAMS with _get_mode_params' fallback to balanced; the two ratios
\* in percent.
get_mode_params(mode) ==
    CASE mode = "conservative" ->
            [decline_age |-> 29, prime_age_min |-> 19, prime_age_max |-> 24,
             single_signing_pct |-> 25, max_total_spend_pct |-> 50]
      [] mode = "win_now" ->
            [decline_age |-> 35, prime_age_min |-> 22, prime_age_max |-> 30,
             single_signing_pct |-> 60, max_total_spend_pct |-> 100]
      [] OTHER ->
            [decline_age |-> 32, prime_age_min |-> 22, prime_age_max |-> 27,
             single_signing_pct |-> 40, max_total_spend_pct |-> 100]

\* _count_group.
count_group(squad, group) ==
    Cardinality({k \in 1..Len(squad) : get_position_group(squad[k].position) = group})

\* _get_group.
get_group(squad, group) ==
    LET idx == KeepIdx([k \in 1..Len(squad) |->
                          get_position_group(squad[k].position) = group], 1, <<>>)
    IN  [k \in 1..Len(idx) |-> squad[idx[k]]]

\* _total_salary.
total_salary(squad) ==
    SumSeq([k \in 1..Len(squad) |-> estimate_salary(squad[k].market_value)], 1)

\* round(v * 0.85) for a whole number v, halves to the even neighbour.
RoundPct85(v) ==
    LET a == IF v >= 0 THEN v ELSE -v
        q == (a * 85) \div 100
        r == (a * 85) % 100
        n == IF r > 50 \/ (r = 50 /\ q % 2 = 1) THEN q + 1 ELSE q
    IN  IF v >= 0 THEN n ELSE -n

\* Mutant of sell_fee: the fee rounded to the nearest unit, not truncated.
sell_fee_Rounded(player) == RoundPct85(OrElse(player.market_value, 0))

\* fee = int((player.market_value or 0) * SELL_FEE_FACTOR).
sell_fee(player) == IntPct(OrElse(player.market_value, 0), SELL_FEE_PCT)

\* sorted(squad, key=lambda p: p.age or 0, reverse=True).
SortedByAgeDesc(squad) ==
    LET ord == SortedIdxDesc([k \in 1..Len(squad) |-> OrElse(squad[k].age, 0)])
    IN  [k \in 1..Len(squad) |-> squad[ord[k]]]

\* Mutant of SortedByValueAsc: the group's players are left in squad order.
SortedByValueAsc_Unsorted(players) == players

\* group_players.sort(key=lambda p: p.market_value or 0).
SortedByValueAsc(players) ==
    LET ord == SortedIdxAsc([k \in 1..Len(players) |-> OrElse(players[k].market_value, 0)])
    IN  [k \in 1..Len(players) |-> players[ord[k]]]

\* Mutant of DeclineCapReached: the cap test written > instead of >=.
DeclineCapReached_OffByOne(decline_sold) == Len(decline_sold) > MAX_DECLINE_SELLS

\* Rule 1's cap: len(decline_sold) >= MAX_DECLINE_SELLS.
DeclineCapReached(decline_sold) == Len(decline_sold) >= MAX_DECLINE_SELLS

\* Mutant of DeclineMaySell: the floor test written >= instead of >.
DeclineMaySell_AtFloor(squad, group) ==
    count_group(squad, group) >= POSITION_THRESHOLDS[group].min

\* Rule 1's floor test: _count_group(squad, group) > min_count.
DeclineMaySell(squad, group) ==
    count_group(squad, group) > POSITION_THRESHOLDS[group].min

\* Rule 1, the loop over the age-sorted snapshot from its i-th player on;
\* st = [squad, decline_sold, transfer_budget].
RECURSIVE DeclineLoop(_, _, _, _)
DeclineLoop(order, i, decline_age, st) ==
    IF i > Len(order) THEN st
    ELSE LET player == order[i]
             group  == get_position_group(player.position)
         IN  IF DeclineCapReached(st.decline_sold) THEN st
             ELSE IF OrElse(player.age, 0) < decline_age THEN st
             ELSE IF group = NoGroup THEN DeclineLoop(order, i + 1, decline_age, st)
             ELSE IF DeclineMaySell(st.squad, group)
                  THEN DeclineLoop(order, i + 1, decline_age,
                         [squad           |-> ListRemove(st.squad, player),
                          decline_sold    |-> Append(st.decline_sold, player),
                          transfer_budget |-> st.transfer_budget + sell_fee(player)])
                  ELSE DeclineLoop(order, i + 1, decline_age, st)

\* sell_phase, rule 1.
sell_rule1(squad, transfer_budget, mode) ==
    DeclineLoop(SortedByAgeDesc(squad), 1, get_mode_params(mode).decline_age,
                [squad |-> squad, decline_sold |-> <<>>,
                 transfer_budget |-> transfer_budget])

\* Rule 2's cap: bloat_sold_count >= MAX_BLOAT_SELLS.
BloatCapReached(bloat_sold_count) == bloat_sold_count >= MAX_BLOAT_SELLS

\* Mutant of bloat_target: the floor at the group's minimum is left out.
bloat_target_NoFloor(group) == POSITION_THRESHOLDS[group].max - 2

\* bloat_target = max(min_count, max_count - 2).
bloat_target(group) ==
    Max2(POSITION_THRESHOLDS[group].min, POSITION_THRESHOLDS[group].max - 2)

\* (player.age or 99) < PROSPECT_AGE and (player.market_value or 0) >= PROSPECT_VALUE_THRESHOLD:
\* an age of 0 is falsy and counts as 99, like an absent one.
IsProtectedProspect(player) ==
    /\ OrElse(player.age, 99) < PROSPECT_AGE
    /\ OrElse(player.market_value, 0) >= PROSPECT_VALUE_THRESHOLD

\* Rule 2, the loop over one group's value-sorted players from the i-th on;
\* st = [squad, sold, bloat_sold_count, transfer_budget].
RECURSIVE BloatInner(_, _, _, _)
BloatInner(group_players, i, group, st) ==
    IF i > Len(group_players) THEN st
    ELSE LET player == group_players[i]
         IN  IF BloatCapReached(st.bloat_sold_count) THEN st
             ELSE IF count_group(st.squad, group) <= bloat_target(group) THEN st
             ELSE IF IsProtectedProspect(player)
                  THEN BloatInner(group_players, i + 1, group, st)
                  ELSE BloatInner(group_players, i + 1, group,
                         [squad            |-> ListRemove(st.squad, player),
                          sold             |-> Append(st.sold, player),
                          bloat_sold_count |-> st.bloat_sold_count + 1,
                          transfer_budget  |-> st.transfer_budget + sell_fee(player)])

\* Rule 2, the loop over the groups from the gi-th on.
RECURSIVE BloatOuter(_, _)
BloatOuter(gi, st) ==
    IF gi > Len(GroupOrder) THEN st
    ELSE IF BloatCapReached(st.bloat_sold_count) THEN st
    ELSE LET group         == GroupOrder[gi]
             group_players == SortedByValueAsc(get_group(st.squad, group))
         IN  IF Len(group_players) <= bloat_target(group)
             THEN BloatOuter(gi + 1, st)
             ELSE BloatOuter(gi + 1, BloatInner(group_players, 1, group, st))

\* sell_phase, rule 2, entered with the squad, sold list and budget rule 1 left.
sell_rule2(squad, sold, transfer_budget) ==
    BloatOuter(1, [squad |-> squad, sold |-> sold, bloat_sold_count |-> 0,
                   transfer_budget |-> transfer_budget])

\* The result of _buy_best_candidate when nothing is bought (player None).
NoPlayer == [player_id |-> None, age |-> None, position |-> "", market_value |-> None]

\* The per-signing gate: a candidate is skipped when fee > max_single_fee.
FeeWithinCap(fee, max_single_fee) == ~(fee > max_single_fee)

\* Mutant of AgeWithin: the upper bound is not applied.
AgeWithin_MinOnly(age, age_min, age_max) ==
    ~(age_min # None /\ age < age_min)

\* The age gate; age_min and age_max are None in the gap-fill pass.
AgeWithin(age, age_min, age_max) ==
    /\ ~(age_min # None /\ age < age_min)
    /\ ~(age_max # None /\ age > age_max)

\* Mutant of SalaryAffordable: the salary gate left out.
SalaryAffordable_NoGate(candidate_salary, salary_remaining) == TRUE

\* The salary gate: a candidate is skipped when candidate_salary > salary_remaining.
SalaryAffordable(candidate_salary, salary_remaining) ==
    ~(candidate_salary > salary_remaining)

\* The three checks of _buy_best_candidate's loop body.
CandidatePasses(candidate, salary_remaining, age_min, age_max, max_single_fee) ==
    /\ FeeWithinCap(OrElse(candidate.market_value, 0), max_single_fee)
    /\ AgeWithin(OrElse(candidate.age, 0), age_min, age_max)
    /\ SalaryAffordable(estimate_salary(candidate.market_value), salary_remaining)

\* The index of the first candidate that passes, 0 when none does.
RECURSIVE FirstPassing(_, _, _, _, _, _)
FirstPassing(candidates, i, salary_remaining, age_min, age_max, max_single_fee) ==
    IF i > Len(candidates) THEN 0
    ELSE IF CandidatePasses(candidates[i], salary_remaining, age_min, age_max,
                            max_single_fee)
         THEN i
         ELSE FirstPassing(candidates, i + 1, salary_remaining, age_min, age_max,
                           max_single_fee)

\* Mutant of PoolAfterPurchase: the purchased player is left in the pool.
PoolAfterPurchase_NotRemoved(pool, candidate) == pool

\* The pool after market.remove_player(candidate.player_id) of a purchase.
PoolAfterPurchase(pool, candidate) == remove_player(pool, candidate.player_id)

\* Mutant of BudgetAfterPurchase: the fee is not debited.
BudgetAfterPurchase_NotDebited(transfer_budget, fee) == transfer_budget

\* transfer_budget -= fee.
BudgetAfterPurchase(transfer_budget, fee) == transfer_budget - fee

\* _buy_best_candidate; the market it mutates is passed and returned as pool.
buy_best_candidate(pool, group, transfer_budget, salary_budget, salary_used, age_min, age_max, max_single_fee) ==
    LET salary_remaining == salary_budget - salary_used
        candidates       == get_candidates(pool, group, transfer_budget)
        k                == FirstPassing(candidates, 1, salary_remaining,
                                         age_min, age_max, max_single_fee)
    IN  IF k = 0
        THEN [found |-> FALSE, player |-> NoPlayer, pool |-> pool,
              transfer_budget |-> transfer_budget, salary_used |-> salary_used,
              fee_paid |-> 0]
        ELSE [found |-> TRUE, player |-> candidates[k],
              pool |-> PoolAfterPurchase(pool, candidates[k]),
              transfer_budget |-> BudgetAfterPurchase(transfer_budget,
                                     OrElse(candidates[k].market_value, 0)),
              salary_used |-> salary_used + estimate_salary(candidates[k].market_value),
              fee_paid |-> OrElse(candidates[k].market_value, 0)]

\* Pass 1 attempts a group unless _count_group(squad, group) >= min_count.
BelowMin(squad, group) ==
    ~(count_group(squad, group) >= POSITION_THRESHOLDS[group].min)

\* Mutant of BelowMax: a group at its maximum is still attempted.
BelowMax_AtMaxToo(squad, group) ==
    ~(count_group(squad, group) > POSITION_THRESHOLDS[group].max)

\* Pass 2 attempts a group unless _count_group(squad, group) >= max_count.
BelowMax(squad, group) ==
    ~(count_group(squad, group) >= POSITION_THRESHOLDS[group].max)

\* Mutant of InitialSalaryUsed: the squad's own salary is not counted.
InitialSalaryUsed_Zero(squad) == 0

\* salary_used = _total_salary(squad), the estimate for the squad received.
InitialSalaryUsed(squad) == total_salary(squad)

\* max_single_fee = int(original_transfer_budget * single_signing_ratio).
MaxSingleFee(original_transfer_budget, mode) ==
    IntPct(original_transfer_budget, get_mode_params(mode).single_signing_pct)

\* max_total_fees = int(original_transfer_budget * max_total_spend_ratio).
MaxTotalFees(original_transfer_budget, mode) ==
    IntPct(original_transfer_budget, get_mode_params(mode).max_total_spend_pct)

\* Mutant of EffectiveCap: only the rest of the total cap is applied.
EffectiveCap_TotalOnly(max_single_fee, max_total_fees, total_fees_paid) ==
    max_total_fees - total_fees_paid

\* Mutant of EffectiveCap: only the per-signing cap is applied.
EffectiveCap_SingleOnly(max_single_fee, max_total_fees, total_fees_paid) ==
    max_single_fee

\* effective_cap = min(max_single_fee, max_total_fees - total_fees_paid).
EffectiveCap(max_single_fee, max_total_fees, total_fees_paid) ==
    Min2(max_single_fee, max_total_fees - total_fees_paid)

\* Mutant of MadePurchaseAfter: the flag is set by every attempt.
MadePurchaseAfter_AlwaysSet(made_purchase, found) == TRUE

\* Mutant of MadePurchaseAfter: a purchase does not set the flag.
MadePurchaseAfter_NeverSet(made_purchase, found) == made_purchase

\* The loop flag after one attempt of a sweep: set by a purchase, else kept.
MadePurchaseAfter(made_purchase, found) == made_purchase \/ found

(***************************************************************************)
(* strategy/kpi.py                                                         *)
(***************************************************************************)
\* int(player.market_value * _get_multiplier(age)) over AGE_VALUE_MULTIPLIERS;
\* ages outside every range take the 0.80 fallback.
ProgressedValue(market_value, age) ==
    CASE age >= 0  /\ age < 21 -> IntMul115(market_value)
      [] age >= 21 /\ age < 25 -> IntPct(market_value, 110)
      [] age >= 25 /\ age < 29 -> IntPct(market_value, 103)
      [] age >= 29 /\ age < 31 -> IntPct(market_value, 95)
      [] age >= 31 /\ age < 33 -> IntPct(market_value, 90)
      [] OTHER                 -> IntPct(market_value, 80)

\* Mutant of ProgressedAge: an absent age is left absent.
ProgressedAge_KeepsAbsent(age) == IF age = None THEN None ELSE age + 1

\* updated.age = (player.age or 0) + 1.
ProgressedAge(age) == OrElse(age, 0) + 1

\* One iteration of apply_age_progression's loop: the updated copy.
ProgressedPlayer(player) ==
    [player EXCEPT
       !.age = ProgressedAge(player.age),
       !.market_value =
           IF player.market_value = None \/ player.market_value = 0
           THEN player.market_value
           ELSE ProgressedValue(player.market_value, OrElse(player.age, 0))]

apply_age_progression(squad) ==
    [k \in 1..Len(squad) |-> ProgressedPlayer(squad[k])]

\* _total_valuation.
total_valuation(squad) ==
    SumSeq([k \in 1..Len(squad) |-> OrElse(squad[k].market_value, 0)], 1)

\* Mutant of FeeReceived: the fee counted at full value.
FeeReceived_FullValue(player) == OrElse(player.market_value, 0)

\* int((p.market_value or 0) * 0.85), a term of fees_received.
FeeReceived(player) == IntPct(OrElse(player.market_value, 0), 85)

\* compute_kpis, without the two average ages.
compute_kpis(squad_before, squad_after, players_bought, players_sold, transfer_budget_remaining, salary_budget, salary_used) ==
    LET val_before    == total_valuation(squad_before)
        val_after     == total_valuation(squad_after)
        fees_paid     == SumSeq([k \in 1..Len(players_bought) |->
                                    OrElse(players_bought[k].market_value, 0)], 1)
        fees_received == SumSeq([k \in 1..Len(players_sold) |->
                                    FeeReceived(players_sold[k])], 1)
    IN  [total_valuation_before    |-> val_before,
         total_valuation_after     |-> val_after,
         valuation_change          |-> val_after - val_before,
         net_spend                 |-> fees_paid - fees_received,
         salary_used               |-> salary_used,
         salary_budget             |-> salary_budget,
         salary_budget_remaining   |-> salary_budget - salary_used,
         transfer_budget_remaining |-> transfer_budget_remaining]

(***************************************************************************)
(* What a phase leaves of the list and the Player objects it was passed.   *)
(***************************************************************************)
\* squad = list(squad) (rules.py lines 80 and 165): the phase works on a copy
\* of its argument, so the caller's list stays as it was whatever becomes of
\* the working list.
CallerListAfter(arg_list, working_list) == arg_list

\* Mutant of OriginalAfterProgression: the loop writes to the player itself.
OriginalAfterProgression_Written(player) == ProgressedPlayer(player)

\* updated = player.model_copy() (kpi.py line 41): age and market value are
\* written to the copy, so the object in the input list stays as it was.
OriginalAfterProgression(player) == player

(***************************************************************************)
(* engine.py: the guard on the loaded squad.                               *)
(***************************************************************************)
\* Mutant of SquadMissing: the check is never taken.
SquadMissing_Never(squad) == FALSE

\* `not squad`: an empty list is falsy.
SquadMissing(squad) == Len(squad) = 0

\* ValueError(f"No squad data found for {sim_input.team_name}").
MissingSquadError(team_name) ==
    [type |-> "ValueError", message |-> <<"No squad data found for ", team_name>>]

(***************************************************************************)
(* The explored inputs: squads and market pool lists as the scraper hands  *)
(* them over (ids unique within the squad, the pool drawn from other       *)
(* clubs), budgets and modes.                                              *)
(***************************************************************************)
Modes == {"balanced", "conservative", "win_now"}

\* Raw position labels of the squad blocks; the fifth block is players whose
\* position is absent or not in POSITION_MAP.
BlockLabels ==
    << <<"Goalkeeper">>,
       <<"Centre-Back", "Left-Back", "Right-Back", "Sweeper">>,
       <<"Central Midfield", "Defensive Midfield", "Attacking Midfield",
         "Left Midfield", "Right Midfield">>,
       <<"Centre-Forward", "Left Winger", "Right Winger", "Second Striker">>,
       <<"", "Midfield">> >>

AgeCycle == <<33, 19, 27, 36, 24, None, 30, 20, 35, 29, 22, 32, 0>>

ValueCycle == <<4000000, 500000, None, 3000000, 1500000, 250007, 6000000, 0>>

\* The values of a squad without cheap players.
RichValueCycle ==
    <<8000000, 3000000, 5000000, 3500000, 12000000, 4000000, 3000000, 7000000>>

PoolAges == <<23, 26, 31, 20, None, 25, 18, 29, 35>>

PoolValues == <<700000, 2000000, 2500000, 2000000, None, 4000000, 1000000>>

\* The block (1..5) of the k-th player of a squad with block sizes counts.
RECURSIVE BlockOf(_, _, _)
BlockOf(counts, k, b) ==
    IF b >= Len(counts) \/ k <= counts[b] THEN b
    ELSE BlockOf(counts, k - counts[b], b + 1)

\* A squad of counts[1] GK, counts[2] DEF, counts[3] MID, counts[4] ATT and
\* counts[5] unclassified players, ids 1..N, ages and values read off the
\* cycles from the given shifts.
MakeSquad(counts, age_shift, values, value_shift) ==
    [k \in 1..SumSeq(counts, 1) |->
        LET labels == BlockLabels[BlockOf(counts, k, 1)]
        IN  [player_id    |-> k,
             age          |-> AgeCycle[((k + age_shift) % Len(AgeCycle)) + 1],
             position     |-> labels[(k % Len(labels)) + 1],
             market_value |-> values[((k + value_shift) % Len(values)) + 1]]]

\* A market pool list of size players, ids 101.., their blocks cycling
\* GK, DEF, MID, ATT, unclassified from the block behind first; with dup, a
\* last entry repeats the first entry's id with other data.
MakePoolList(size, first, shift, dup) ==
    LET base == [j \in 1..size |->
                    LET labels == BlockLabels[((j - 1 + first) % 5) + 1]
                    IN  [player_id    |-> 100 + j,
                         age          |-> PoolAges[((j + shift) % Len(PoolAges)) + 1],
                         position     |-> labels[((j + shift) % Len(labels)) + 1],
                         market_value |-> PoolValues[((j + 2 * shift) % Len(PoolValues)) + 1]]]
    IN  IF dup /\ size > 0
        THEN Append(base, [base[1] EXCEPT !.age = 24, !.market_value = 1200000])
        ELSE base

\* Squads with bloated groups, for the sell rules.
BloatedShapes ==
    {<<gk, df, md, at, x>> :
        gk \in {2, 3, 2 + MaxOver}, df \in {5, 10 + MaxOver},
        md \in {6, 10 + MaxOver}, at \in {3, 8 + MaxOver}, x \in {0, 2}}

\* Squads with groups short of their minimum or below their maximum, for the
\* buy passes.
LeanShapes ==
    {<<gk, df, md, at, x>> :
        gk \in {0, 1, 3}, df \in {3, 5}, md \in {4, 12}, at \in {3}, x \in {1}}

\* The squad sq with its first n players made prospects: ages 18 to 20 and
\* values of at least 3,000,000.
WithProspects(sq, n) ==
    [k \in 1..Len(sq) |->
        IF k <= n
        THEN [sq[k] EXCEPT !.age = 18 + (k % 3),
                           !.market_value = 3000000 + 500000 * (k % 2)]
        ELSE sq[k]]

\* Squads whose goalkeepers are mostly prospects, for the bloat rule.
AcademyShapes == {<<2 + MaxOver, 5, 10 + MaxOver, 3, 0>>, <<3, 5, 6, 3, 2>>}

\* Squads short of attackers as well, for sweeps that go on after a purchase.
ShortAttackShapes ==
    {<<gk, df, md, at, x>> :
        gk \in {0, 1}, df \in {3}, md \in {4}, at \in {2}, x \in {1}}

PoolLists ==
    {MakePoolList(0, 0, 0, FALSE), MakePoolList(3, 1, 0, FALSE)} \cup
    {MakePoolList(MaxPool, 0, sh, dup) : sh \in 0..2, dup \in BOOLEAN}

\* The value cycles and shifts of the squads with bloated groups.
BloatedValues == {<<ValueCycle, 0>>, <<ValueCycle, 3>>, <<RichValueCycle, 0>>}

(***************************************************************************)
(* The market pool loader and the files it reads and writes.               *)
(***************************************************************************)
\* scraper/config.py, LEAGUE_TOP_CLUBS["laliga"].
LEAGUE_TOP_CLUBS ==
    <<[slug |-> "real-madrid",     id |-> "418",  name |-> "Real Madrid"],
      [slug |-> "fc-barcelona",    id |-> "131",  name |-> "FC Barcelona"],
      [slug |-> "atletico-madrid", id |-> "13",   name |-> "Atletico Madrid"],
      [slug |-> "real-sociedad",   id |-> "681",  name |-> "Real Sociedad"],
      [slug |-> "fc-villarreal",   id |-> "1050", name |-> "Villarreal"]>>

\* No cache file at the path: cache_path.exists() is false.
NoFile == [exists |-> FALSE, players |-> <<>>]

\* No club has been resolved.
NoClub == [slug |-> "", id |-> "", name |-> ""]

\* Players on a club's squad page.
SquadSize == 2

\* _scrape_squad for the k-th club of the league: parse_player sets
\* current_club to the club's name.  The same players are in the club's squad
\* file when it is cached.
ClubSquad(k) ==
    [j \in 1..SquadSize |->
        [player_id    |-> 1000 * k + j,
         age          |-> PoolAges[((k + j) % Len(PoolAges)) + 1],
         position     |-> BlockLabels[((k + j) % 4) + 1][1],
         market_value |-> PoolValues[((k + j) % Len(PoolValues)) + 1],
         current_club |-> LEAGUE_TOP_CLUBS[k].name]]

\* The squads of the clubs from the k-th on, one after the other, without the
\* club whose id is exclude_club_id: the loop of scrape_market_pool.
RECURSIVE ScrapeFrom(_, _)
ScrapeFrom(k, exclude_club_id) ==
    IF k > Len(LEAGUE_TOP_CLUBS) THEN <<>>
    ELSE IF LEAGUE_TOP_CLUBS[k].id = exclude_club_id
         THEN ScrapeFrom(k + 1, exclude_club_id)
         ELSE ClubSquad(k) \o ScrapeFrom(k + 1, exclude_club_id)

\* scrape_market_pool.
scrape_market_pool(exclude_club_id) == ScrapeFrom(1, exclude_club_id)

\* _build_pool_from_cached_clubs: the cached squads of the other clubs, or the
\* empty list as soon as one of them has no file.
build_pool_from_cached_clubs(cached, club_id) ==
    IF \E k \in 1..Len(LEAGUE_TOP_CLUBS) :
          LEAGUE_TOP_CLUBS[k].id # club_id /\ LEAGUE_TOP_CLUBS[k].id \notin cached
    THEN <<>>
    ELSE ScrapeFrom(1, club_id)

\* The list read from the cache file without the players whose current_club
\* is team_name (line 110).
CachedPoolFor(players, team_name) ==
    LET idx == KeepIdx([k \in 1..Len(players) |->
                           players[k].current_club # team_name], 1, <<>>)
    IN  [k \in 1..Len(idx) |-> players[idx[k]]]

\* _load_or_scrape_market_pool: the list returned and the cache file left.
load_or_scrape_market_pool(cache, cached, club) ==
    IF cache.exists
    THEN [players |-> CachedPoolFor(cache.players, club.name), cache |-> cache]
    ELSE LET built   == build_pool_from_cached_clubs(cached, club.id)
             players == IF Len(built) = 0 THEN scrape_market_pool(club.id) ELSE built
         IN  [players |-> players,
              cache   |-> [exists |-> TRUE, players |-> players]]

(***************************************************************************)
(* run_simulation as a state machine.                                      *)
(***************************************************************************)
VARIABLES
    sim_input,        \* [team_name, transfer_budget, salary_budget, strategy_mode]
    error,            \* the exception run_simulation raised, or NoError
    phase_arg,        \* the list passed to the phase last called, as it stands
    market_players,   \* the list the TransferMarket was built from
    squad_before,     \* the snapshot list(squad) taken before the sell phase
    squad,            \* the squad the phases hand on
    players_sold,
    decline_sold_count, \* len(decline_sold) when rule 1 ended
    bloat_sold_count,
    transfer_budget,
    market,           \* TransferMarket._pool
    players_bought,
    pass1_bought,     \* len(bought) when pass 1 ended
    salary_used,
    total_fees_paid,
    made_purchase,
    gi,               \* the for loop's place in GroupOrder
    squad_after,
    kpis,
    pc,
    market_cache,     \* the content of market_{league}_{season}.json, or NoFile
    club_cached,      \* the ids of the clubs whose squad file is on disk
    caller,           \* the club entry routes.py resolved for sim_input.team_name
    pool_calls        \* the market pool loads made so far

vars == <<sim_input, market_players, error, phase_arg, squad_before, squad, players_sold,
          decline_sold_count, bloat_sold_count, transfer_budget, market,
          players_bought, pass1_bought, salary_used, total_fees_paid,
          made_purchase, gi, squad_after, kpis, pc,
          market_cache, club_cached, caller, pool_calls>>

\* The files of DATA_DIR and what is known of the calls made on them.
dataVars == <<market_cache, club_cached, caller, pool_calls>>

NoKpis == compute_kpis(<<>>, <<>>, <<>>, <<>>, 0, 0, 0)

NoError == [type |-> "", message |-> <<>>]

\* The state of run_simulation once _load_or_scrape_squad has returned sq
\* (engine.py line 40); market_players is the list the market pool loader
\* will return, and neither the market nor the snapshot exists yet.
InitFor(team, sq, pool_list, tb, sb, mode) ==
    /\ sim_input = [team_name |-> team, transfer_budget |-> tb,
                    salary_budget |-> sb, strategy_mode |-> mode]
    /\ market_players = pool_list
    /\ error = NoError
    /\ phase_arg = <<>>
    /\ market = <<>>
    /\ squad_before = <<>>
    /\ squad = sq
    /\ players_sold = <<>>
    /\ decline_sold_count = 0
    /\ bloat_sold_count = 0
    /\ transfer_budget = tb
    /\ players_bought = <<>>
    /\ pass1_bought = 0
    /\ salary_used = 0
    /\ total_fees_paid = 0
    /\ made_purchase = FALSE
    /\ gi = 1
    /\ squad_after = <<>>
    /\ market_cache = NoFile
    /\ club_cached = {}
    /\ caller = NoClub
    /\ pool_calls = 0
    /\ kpis = NoKpis
    /\ pc = "loaded"

InitWith(sq, pool_list, tb, sb, mode) ==
    InitFor("FC Barcelona", sq, pool_list, tb, sb, mode)

\* Squads with bloated groups, a small pool and ample budgets.
InitBloated ==
    \E shape \in BloatedShapes, a \in 0..2, v \in BloatedValues, mode \in Modes :
        LET sq == MakeSquad(shape, 4 * a, v[1], v[2])
        IN  InitWith(sq, MakePoolList(3, 0, 0, FALSE), 5000000,
                     total_salary(sq) + 10000000, mode)

\* Lean squads with every pool list, the transfer budgets tbs and the salary
\* budgets that leave the given slacks over the squad's estimated salary.
InitLean(tbs, slacks) ==
    \E shape \in LeanShapes, pool_list \in PoolLists, mode \in Modes,
       tb \in tbs, slack \in slacks :
        LET sq == MakeSquad(shape, 0, ValueCycle, 0)
        IN  InitWith(sq, pool_list, tb, Max2(0, total_salary(sq) + slack), mode)

\* Squads short of attackers with every pool list and ample salary budget.
InitShortAttack ==
    \E shape \in ShortAttackShapes, pool_list \in PoolLists, mode \in Modes,
       tb \in {4500000, 10000000} :
        LET sq == MakeSquad(shape, 0, ValueCycle, 0)
        IN  InitWith(sq, pool_list, tb, total_salary(sq) + 50000000, mode)

\* Squads with prospects in goal, a small pool and ample budgets.
InitAcademy ==
    \E shape \in AcademyShapes, n \in {3, MaxOver + 1}, mode \in Modes :
        LET sq == WithProspects(MakeSquad(shape, 0, ValueCycle, 0), n)
        IN  InitWith(sq, MakePoolList(3, 0, 0, FALSE), 5000000,
                     total_salary(sq) + 10000000, mode)

\* No squad could be resolved: the loader returned an empty list.
InitNoSquad ==
    \E team \in {"FC Barcelona", "Arsenal FC"}, pool_list \in PoolLists,
       mode \in Modes, tb \in {0, 10000000} :
        InitFor(team, <<>>, pool_list, tb, 50000000, mode)

Init ==
    \/ InitBloated
    \/ InitLean({0, 3000000, 10000000}, {-1, 300000, 50000000})
    \/ InitShortAttack
    \/ InitAcademy
    \/ InitNoSquad

\* engine.py lines 41-42: an empty squad raises and run_simulation is over.
CheckSquad ==
    /\ pc = "loaded"
    /\ IF SquadMissing(squad)
       THEN /\ error' = MissingSquadError(sim_input.team_name)
            /\ pc' = "failed"
       ELSE /\ error' = error
            /\ pc' = "market"
    /\ UNCHANGED <<sim_input, market_players, phase_arg, squad_before, squad, players_sold,
                   decline_sold_count, bloat_sold_count, transfer_budget, market,
                   players_bought, pass1_bought, salary_used, total_fees_paid,
                   made_purchase, gi, squad_after, kpis>>
    /\ UNCHANGED dataVars

\* engine.py lines 46-51: the market pool is loaded, the TransferMarket built
\* and the snapshot squad_before = list(squad) taken.
BuildMarket ==
    /\ pc = "market"
    /\ market' = TransferMarketInit(market_players)
    /\ squad_before' = squad
    /\ pc' = "sell_rule1"
    /\ UNCHANGED <<sim_input, market_players, phase_arg, error, squad, players_sold,
                   decline_sold_count, bloat_sold_count, transfer_budget,
                   players_bought, pass1_bought, salary_used, total_fees_paid,
                   made_purchase, gi, squad_after, kpis>>
    /\ UNCHANGED dataVars

\* sell_phase, lines 79-102: rule 1.
SellRule1 ==
    /\ pc = "sell_rule1"
    /\ LET r == sell_rule1(squad, transfer_budget, sim_input.strategy_mode)
       IN  /\ squad' = r.squad
           /\ players_sold' = r.decline_sold
           /\ decline_sold_count' = Len(r.decline_sold)
           /\ transfer_budget' = r.transfer_budget
           /\ phase_arg' = CallerListAfter(squad, r.squad)
    /\ pc' = "sell_rule2"
    /\ UNCHANGED <<sim_input, market_players, error, squad_before, bloat_sold_count,
                   market, players_bought, pass1_bought, salary_used,
                   total_fees_paid, made_purchase, gi, squad_after, kpis>>
    /\ UNCHANGED dataVars

\* sell_phase, lines 104-132: rule 2 and the return.
SellRule2 ==
    /\ pc = "sell_rule2"
    /\ LET r == sell_rule2(squad, players_sold, transfer_budget)
       IN  /\ squad' = r.squad
           /\ players_sold' = r.sold
           /\ bloat_sold_count' = r.bloat_sold_count
           /\ transfer_budget' = r.transfer_budget
           /\ phase_arg' = CallerListAfter(phase_arg, r.squad)
    /\ pc' = "buy_start"
    /\ UNCHANGED <<sim_input, market_players, error, squad_before, decline_sold_count,
                   market, players_bought, pass1_bought, salary_used,
                   total_fees_paid, made_purchase, gi, squad_after, kpis>>
    /\ UNCHANGED dataVars

max_single_fee == MaxSingleFee(sim_input.transfer_budget, sim_input.strategy_mode)

max_total_fees == MaxTotalFees(sim_input.transfer_budget, sim_input.strategy_mode)

\* buy_phase, lines 164-175.
BuyStart ==
    /\ pc = "buy_start"
    /\ players_bought' = <<>>
    /\ phase_arg' = CallerListAfter(squad, squad)
    /\ salary_used' = InitialSalaryUsed(squad)
    /\ total_fees_paid' = 0
    /\ made_purchase' = TRUE
    /\ pc' = "p1_while"
    /\ UNCHANGED <<sim_input, market_players, error, squad_before, squad, players_sold,
                   decline_sold_count, bloat_sold_count, transfer_budget, market,
                   pass1_bought, gi, squad_after, kpis>>
    /\ UNCHANGED dataVars

\* The head of a pass's while loop, lines 176-179 and 197-200: leave the pass
\* when the last sweep bought nothing or the total cap is reached, else start
\* a sweep.
WhileHead(here, sweep, after) ==
    /\ pc = here
    /\ IF made_purchase /\ ~(total_fees_paid >= max_total_fees)
       THEN /\ made_purchase' = FALSE
            /\ gi' = 1
            /\ pc' = sweep
       ELSE /\ made_purchase' = made_purchase
            /\ gi' = gi
            /\ pc' = after

\* One iteration of a pass's for loop, lines 180-193 and 201-213, for the
\* group at gi; after the last group control returns to the while head.
ForGroup(here, head, eligible, age_min, age_max) ==
    /\ pc = here
    /\ LET group == GroupOrder[gi]
           r == buy_best_candidate(market, group, transfer_budget,
                   sim_input.salary_budget, salary_used, age_min, age_max,
                   EffectiveCap(max_single_fee, max_total_fees, total_fees_paid))
       IN  IF eligible /\ r.found
           THEN /\ squad' = Append(squad, r.player)
                /\ phase_arg' = CallerListAfter(phase_arg, Append(squad, r.player))
                /\ players_bought' = Append(players_bought, r.player)
                /\ total_fees_paid' = total_fees_paid + r.fee_paid
                /\ market' = r.pool
                /\ transfer_budget' = r.transfer_budget
                /\ salary_used' = r.salary_used
                /\ made_purchase' = MadePurchaseAfter(made_purchase, TRUE)
           ELSE /\ made_purchase' = MadePurchaseAfter(made_purchase, FALSE)
                /\ UNCHANGED <<phase_arg, squad, players_bought, total_fees_paid, market,
                               transfer_budget, salary_used>>
    /\ IF gi < Len(GroupOrder)
       THEN gi' = gi + 1 /\ pc' = here
       ELSE gi' = 1 /\ pc' = head

\* Pass 1, the while head.
Pass1While ==
    /\ WhileHead("p1_while", "p1_for", "p1_done")
    /\ UNCHANGED <<sim_input, market_players, phase_arg, error, squad_before, squad, players_sold,
                   decline_sold_count, bloat_sold_count, transfer_budget, market,
                   players_bought, pass1_bought, salary_used, total_fees_paid,
                   squad_after, kpis>>
    /\ UNCHANGED dataVars

\* Pass 1, one group: skipped unless the group is below its minimum; no age
\* filter.
Pass1Group ==
    /\ ForGroup("p1_for", "p1_while",
                BelowMin(squad, GroupOrder[gi]),
                None, None)
    /\ UNCHANGED <<sim_input, market_players, error, squad_before, players_sold,
                   decline_sold_count, bloat_sold_count, pass1_bought,
                   squad_after, kpis>>
    /\ UNCHANGED dataVars

\* Line 196: pass 2 starts with made_purchase = True.
Pass2Start ==
    /\ pc = "p1_done"
    /\ made_purchase' = TRUE
    /\ pass1_bought' = Len(players_bought)
    /\ pc' = "p2_while"
    /\ UNCHANGED <<sim_input, market_players, phase_arg, error, squad_before, squad, players_sold,
                   decline_sold_count, bloat_sold_count, transfer_budget, market,
                   players_bought, salary_used, total_fees_paid, gi,
                   squad_after, kpis>>
    /\ UNCHANGED dataVars

\* Pass 2, the while head; leaving it returns from buy_phase (line 215).
Pass2While ==
    /\ WhileHead("p2_while", "p2_for", "bought")
    /\ UNCHANGED <<sim_input, market_players, phase_arg, error, squad_before, squad, players_sold,
                   decline_sold_count, bloat_sold_count, transfer_budget, market,
                   players_bought, pass1_bought, salary_used, total_fees_paid,
                   squad_after, kpis>>
    /\ UNCHANGED dataVars

\* Pass 2, one group: skipped unless the group is below its maximum; prime
\* ages of the mode only.
Pass2Group ==
    /\ ForGroup("p2_for", "p2_while",
                BelowMax(squad, GroupOrder[gi]),
                get_mode_params(sim_input.strategy_mode).prime_age_min,
                get_mode_params(sim_input.strategy_mode).prime_age_max)
    /\ UNCHANGED <<sim_input, market_players, error, squad_before, players_sold,
                   decline_sold_count, bloat_sold_count, pass1_bought,
                   squad_after, kpis>>
    /\ UNCHANGED dataVars

\* engine.py step 6: squad_after = apply_age_progression(squad).  The Player
\* objects of squad are those of squad_before, bar the ones sold and bought,
\* so what the loop leaves of an object shows in both lists.
AgeProgression ==
    /\ pc = "bought"
    /\ squad_after' = apply_age_progression(squad)
    /\ squad' = [k \in 1..Len(squad) |-> OriginalAfterProgression(squad[k])]
    /\ phase_arg' = squad'
    /\ squad_before' =
          [k \in 1..Len(squad_before) |->
              IF \E j \in 1..Len(squad) : squad[j] = squad_before[k]
              THEN OriginalAfterProgression(squad_before[k])
              ELSE squad_before[k]]
    /\ pc' = "aged"
    /\ UNCHANGED <<sim_input, market_players, error, players_sold,
                   decline_sold_count, bloat_sold_count, transfer_budget, market,
                   players_bought, pass1_bought, salary_used, total_fees_paid,
                   made_purchase, gi, kpis>>
    /\ UNCHANGED dataVars

\* engine.py step 7 and the return of the SimulationResult.
ComputeKpis ==
    /\ pc = "aged"
    /\ kpis' = compute_kpis(squad_before, squad_after, players_bought,
                            players_sold, transfer_budget,
                            sim_input.salary_budget, salary_used)
    /\ pc' = "done"
    /\ UNCHANGED <<sim_input, market_players, phase_arg, error, squad_before, squad, players_sold,
                   decline_sold_count, bloat_sold_count, transfer_budget, market,
                   players_bought, pass1_bought, salary_used, total_fees_paid,
                   made_purchase, gi, squad_after>>
    /\ UNCHANGED dataVars

Next ==
    \/ CheckSquad
    \/ BuildMarket
    \/ SellRule1
    \/ SellRule2
    \/ BuyStart
    \/ Pass1While
    \/ Pass1Group
    \/ Pass2Start
    \/ Pass2While
    \/ Pass2Group
    \/ AgeProgression
    \/ ComputeKpis

Spec == Init /\ [][Next]_vars

(***************************************************************************)
(* Properties.                                                             *)
(***************************************************************************)
Groups == {GroupOrder[k] : k \in 1..Len(GroupOrder)}

GroupMin(g) == POSITION_THRESHOLDS[g].min

GroupMax(g) == POSITION_THRESHOLDS[g].max

DeclineAge == get_mode_params(sim_input.strategy_mode).decline_age

\* The states in which buy_phase is running or has returned.
InBuy == pc \in {"p1_while", "p1_for", "p1_done", "p2_while", "p2_for", "bought"}

\* The squad buy_phase received: purchases are appended behind it.
SquadAtBuyStart == SubSeq(squad, 1, Len(squad) - Len(players_bought))

\* The players sold under the bloat rule: they follow the decline sells.
BloatSold == SubSeq(players_sold, decline_sold_count + 1, Len(players_sold))

FeesOf(players) ==
    SumSeq([k \in 1..Len(players) |-> OrElse(players[k].market_value, 0)], 1)

\* A pool player of group g that an attempt without age bounds would buy now.
PurchasableNow(p, g) ==
    /\ get_position_group(p.position) = g
    /\ OrElse(p.market_value, 0) <= transfer_budget
    /\ OrElse(p.market_value, 0) <= Min2(max_single_fee, max_total_fees - total_fees_paid)
    /\ estimate_salary(p.market_value) <= sim_input.salary_budget - salary_used

\* C1 (as stated): the squad sell_phase returns has, in every position group,
\* at least the group's minimum.
C1_FloorForEverySquad ==
    pc = "buy_start" => \A g \in Groups : count_group(squad, g) >= GroupMin(g)

\* C1 (amended): sell_phase never takes a group below its minimum: in the squad
\* it returns, and between its two rules, every group's count is at least the
\* smaller of the group's count in the input squad and the group's minimum.
C1_SellKeepsFloor ==
    pc \in {"sell_rule2", "buy_start"} =>
        \A g \in Groups :
            count_group(squad, g) >= Min2(count_group(squad_before, g), GroupMin(g))

\* C1 witness: a group above its minimum was sold down to the minimum and
\* still holds a player of decline age, with the decline cap not reached.
C1_Witness ==
    /\ pc = "buy_start"
    /\ decline_sold_count < MAX_DECLINE_SELLS
    /\ \E g \in Groups :
          /\ count_group(squad_before, g) > GroupMin(g)
          /\ count_group(squad, g) = GroupMin(g)
          /\ \E k \in 1..Len(squad) :
                /\ get_position_group(squad[k].position) = g
                /\ OrElse(squad[k].age, 0) >= DeclineAge

C3_SalaryNeverNegative ==
    pc = "bought" => sim_input.salary_budget - salary_used >= 0

\* C3 (amended): buying never drives the remaining salary budget negative:
\* throughout buy_phase, salary budget minus salary used is at least the smaller
\* of 0 and the salary budget minus the estimated salary of the squad
\* buy_phase received.
C3_BuyingKeepsSalary ==
    InBuy =>
        sim_input.salary_budget - salary_used >=
            Min2(0, sim_input.salary_budget - total_salary(SquadAtBuyStart))

\* C3 witness: buy_phase bought, and a pool player that every other filter of
\* pass 2 would let through is kept out by the salary gate alone.
C3_Witness ==
    /\ pc = "bought"
    /\ Len(players_bought) > 0
    /\ sim_input.salary_budget - salary_used >= 0
    /\ total_fees_paid < max_total_fees
    /\ \E k \in 1..Len(market) :
          LET p == market[k]
              g == get_position_group(p.position)
          IN  /\ g # NoGroup
              /\ count_group(squad, g) < GroupMax(g)
              /\ OrElse(p.market_value, 0) <= transfer_budget
              /\ OrElse(p.market_value, 0) <=
                    Min2(max_single_fee, max_total_fees - total_fees_paid)
              /\ AgeWithin(OrElse(p.age, 0),
                           get_mode_params(sim_input.strategy_mode).prime_age_min,
                           get_mode_params(sim_input.strategy_mode).prime_age_max)
              /\ estimate_salary(p.market_value) > sim_input.salary_budget - salary_used

\* C4: no bought player is still in the pool by id, and no id is bought twice.
C4_NoDoubleSpend ==
    InBuy =>
        /\ \A b \in 1..Len(players_bought) :
              \A k \in 1..Len(market) :
                  market[k].player_id # players_bought[b].player_id
        /\ \A a, b \in 1..Len(players_bought) :
              players_bought[a].player_id = players_bought[b].player_id => a = b

\* C4 witness: both passes bought, from a pool list that named an id twice.
C4_Witness ==
    /\ pc = "bought"
    /\ pass1_bought > 0
    /\ Len(players_bought) > pass1_bought
    /\ Len(market_players) > Len(TransferMarketInit(market_players))

\* C5: at most 6 decline sells and at most 6 bloat sells in a sell_phase call.
C5_SellCaps ==
    /\ pc = "sell_rule2" => Len(players_sold) <= 6
    /\ pc = "buy_start" =>
          /\ decline_sold_count <= 6
          /\ Len(players_sold) - decline_sold_count <= 6
          /\ bloat_sold_count = Len(players_sold) - decline_sold_count

\* C5 witness: both caps were reached with more to sell: a player of decline
\* age is left in a group above its minimum, and an unprotected player is left
\* in a group above its bloat target.
C5_Witness ==
    /\ pc = "buy_start"
    /\ decline_sold_count = 6
    /\ Len(players_sold) = 12
    /\ \E k \in 1..Len(squad) :
          LET g == get_position_group(squad[k].position)
          IN  /\ g # NoGroup
              /\ OrElse(squad[k].age, 0) >= DeclineAge
              /\ count_group(squad, g) > GroupMin(g)
    /\ \E k \in 1..Len(squad) :
          LET g == get_position_group(squad[k].position)
          IN  /\ g # NoGroup
              /\ count_group(squad, g) > bloat_target(g)
              /\ ~IsProtectedProspect(squad[k])

\* A player of the input squad whose age is present and below 21 and whose
\* market value is at least 3,000,000.
IsProspect(p) ==
    /\ p.age # None
    /\ p.age < 21
    /\ p.market_value # None
    /\ p.market_value >= 3000000

\* C6 (as stated): a prospect of the input squad is never sold, and is in the
\* squad sell_phase returns.
C6_ProspectsKept ==
    /\ \A k \in 1..Len(players_sold) : ~IsProspect(players_sold[k])
    /\ pc = "buy_start" =>
          \A k \in 1..Len(squad_before) :
              IsProspect(squad_before[k]) =>
                  \E j \in 1..Len(squad) : squad[j] = squad_before[k]

\* The work buy_phase has left: six units for every player still in the pool,
\* plus the steps left in the current sweep and the while heads after it.
BuyRank ==
    LET head1 == IF made_purchase THEN 27 ELSE 21
        head2 == IF made_purchase THEN 17 ELSE 11
        left  == CASE pc = "buy_start" -> 28
                   [] pc = "p1_while"  -> head1
                   [] pc = "p1_for"    -> head1 + (5 - gi)
                   [] pc = "p1_done"   -> 20
                   [] pc = "p2_while"  -> head2
                   [] pc = "p2_for"    -> head2 + (5 - gi)
                   [] OTHER            -> 10
    IN  6 * Len(market) + left

\* C7: buy_phase terminates: every step it takes lowers BuyRank, which never
\* goes below zero, so no run of buy_phase has infinitely many steps. A pass
\* goes on to another sweep only after a sweep that bought, each purchase
\* takes a player out of the pool, and nothing is bought for a group of which
\* the pool holds no player.
C7_BuyTerminates ==
    /\ [][(pc \in {"buy_start", "p1_while", "p1_for", "p1_done", "p2_while", "p2_for"})
              => (BuyRank' < BuyRank /\ BuyRank' >= 0)]_vars
    /\ [][(pc = "p1_while" /\ ~made_purchase) => pc' = "p1_done"]_vars
    /\ [][(pc = "p2_while" /\ ~made_purchase) => pc' = "bought"]_vars
    /\ [][(pc \in {"p1_for", "p2_for"} /\ ~made_purchase /\ made_purchase')
              => Len(market') < Len(market)]_vars
    /\ [](InBuy => \A g \in Groups :
              (\A k \in 1..Len(market_players) :
                   get_position_group(market_players[k].position) # g)
              => \A j \in 1..Len(players_bought) :
                     get_position_group(players_bought[j].position) # g)

\* C7 witness: pass 1 ended, below the total cap, having bought nothing, with
\* GK below its minimum and no GK in the pool.
C7_Witness ==
    /\ pc = "p1_done"
    /\ total_fees_paid < max_total_fees
    /\ Len(players_bought) = 0
    /\ Len(market) > 0
    /\ count_group(squad, "GK") < GroupMin("GK")
    /\ \A k \in 1..Len(market) : get_position_group(market[k].position) # "GK"

\* C8 (as stated): after pass 1 every group's count is at least its minimum.
C8_Pass1RestoresFloor ==
    pc = "p1_done" => \A g \in Groups : count_group(squad, g) >= GroupMin(g)

\* C8 (amended): after pass 1 every group's count is at least its minimum,
\* unless the total spend cap is reached or the pool holds no player of the
\* group that the remaining transfer budget, the effective cap and the
\* remaining salary budget allow; and pass 1 lowers no group's count.
C8_Pass1FillsWhatItCan ==
    pc = "p1_done" =>
        /\ \A g \in Groups :
              \/ count_group(squad, g) >= GroupMin(g)
              \/ total_fees_paid >= max_total_fees
              \/ \A k \in 1..Len(market) : ~PurchasableNow(market[k], g)
        /\ \A g \in Groups :
              count_group(squad, g) >= count_group(SquadAtBuyStart, g)

\* C8 witness: pass 1 brought a group that was below its minimum up to it,
\* and left another one below.
C8_Witness ==
    /\ pc = "p1_done"
    /\ \E g \in Groups :
          /\ count_group(SquadAtBuyStart, g) < GroupMin(g)
          /\ count_group(squad, g) >= GroupMin(g)
    /\ \E g \in Groups : count_group(squad, g) < GroupMin(g)

\* C10: apply_age_progression returns as many players, the same ids in the
\* same order, each a year older, an absent age becoming 1.
C10_AgeProgressionShape ==
    pc \in {"aged", "done"} =>
        /\ Len(squad_after) = Len(squad)
        /\ \A k \in 1..Len(squad) :
              /\ squad_after[k].player_id = squad[k].player_id
              /\ squad_after[k].age =
                    IF squad[k].age = None THEN 1 ELSE squad[k].age + 1

\* C10 witness: a squad with a bought player, a player of absent age and a
\* player of known age was aged.
C10_Witness ==
    /\ pc = "aged"
    /\ Len(players_bought) > 0
    /\ \E k \in 1..Len(squad) : squad[k].age = None /\ squad_after[k].age = 1
    /\ \E k \in 1..Len(squad) : squad[k].age = 35 /\ squad_after[k].age = 36

\* C11 (as stated): once total_fees_paid has reached max_total_fees, no step
\* of buy_phase buys a player.
C11_NoPurchaseAfterCap ==
    [][(InBuy /\ total_fees_paid >= max_total_fees)
          => players_bought' = players_bought]_vars

\* C12: when the loaded squad is empty, run_simulation ends in the failed
\* state straight from the squad check, with one ValueError whose message
\* names the club; the market is not built, no snapshot is taken, nothing is
\* sold, bought, aged or reported, no step follows, and no other run fails.
C12_MissingSquadFails ==
    /\ []((Len(squad) = 0 /\ pc # "loaded") => pc = "failed")
    /\ [](pc = "failed" =>
            /\ Len(squad) = 0
            /\ error.type = "ValueError"
            /\ error.message = <<"No squad data found for ", sim_input.team_name>>
            /\ market = <<>> /\ squad_before = <<>>
            /\ players_sold = <<>> /\ players_bought = <<>>
            /\ squad_after = <<>> /\ kpis = NoKpis)
    /\ [](pc # "failed" => error = NoError)
    /\ [][pc # "failed" /\ (pc' = "failed" => pc = "loaded")]_vars

\* C12 witness: the run failed for a club while the pool loader had players
\* to return.
C12_Witness ==
    /\ pc = "failed"
    /\ sim_input.team_name = "Arsenal FC"
    /\ Len(market_players) > 0

\* C13: with an empty market pool no step of buy_phase changes the squad or
\* the transfer budget, nothing is bought, and salary_used is the estimated
\* salary of the squad buy_phase received; buy_phase returns and the run
\* raises no error.
C13_EmptyPoolNoOp ==
    /\ [][(Len(market_players) = 0
            /\ pc \in {"buy_start", "p1_while", "p1_for", "p1_done", "p2_while", "p2_for"})
              => /\ squad' = squad
                 /\ transfer_budget' = transfer_budget
                 /\ players_bought' = <<>>
                 /\ error' = NoError]_vars
    /\ []((Len(market_players) = 0 /\ InBuy)
              => /\ players_bought = <<>>
                 /\ salary_used = total_salary(squad))

\* C13 witness: buy_phase returned with an empty pool, a group below its
\* minimum and money left in both budgets.
C13_Witness ==
    /\ pc = "bought"
    /\ Len(market_players) = 0
    /\ \E g \in Groups : count_group(squad, g) < GroupMin(g)
    /\ transfer_budget > 0
    /\ sim_input.salary_budget - salary_used > 0

\* The raw labels of the fixed position table.
TableLabels ==
    {"Goalkeeper", "Sweeper", "Centre-Back", "Left-Back", "Right-Back",
     "Defensive Midfield", "Central Midfield", "Left Midfield", "Right Midfield",
     "Attacking Midfield", "Left Winger", "Right Winger", "Second Striker",
     "Centre-Forward"}

\* A player whose position is absent or not in the table.
Unmapped(p) == p.position \notin TableLabels

\* C14: no sold and no bought player is unmapped, and from the snapshot to the
\* return of buy_phase the unmapped players of the squad are those of the
\* input squad, unchanged and in the same order.
C14_UnmappedInvisible ==
    /\ \A k \in 1..Len(players_sold) : ~Unmapped(players_sold[k])
    /\ \A k \in 1..Len(players_bought) : ~Unmapped(players_bought[k])
    /\ (pc \in {"sell_rule1", "sell_rule2", "buy_start"} \/ InBuy)
          => SelectSeq(squad, Unmapped) = SelectSeq(squad_before, Unmapped)

\* C14 witness: buy_phase returned; the squad holds an unmapped player at or
\* over the decline age though the decline cap was not reached, and the pool
\* an unmapped player that both budgets and the caps would have allowed.
C14_Witness ==
    /\ pc = "bought"
    /\ decline_sold_count < MAX_DECLINE_SELLS
    /\ \E k \in 1..Len(squad) :
          Unmapped(squad[k]) /\ OrElse(squad[k].age, 0) >= DeclineAge
    /\ total_fees_paid < max_total_fees
    /\ \E j \in 1..Len(market) :
          /\ Unmapped(market[j])
          /\ OrElse(market[j].market_value, 0) > 0
          /\ OrElse(market[j].market_value, 0) <= transfer_budget
          /\ OrElse(market[j].market_value, 0)
                <= Min2(max_single_fee, max_total_fees - total_fees_paid)
          /\ estimate_salary(market[j].market_value)
                <= sim_input.salary_budget - salary_used
          /\ OrElse(market[j].age, 0) >= get_mode_params(sim_input.strategy_mode).prime_age_min
          /\ OrElse(market[j].age, 0) <= get_mode_params(sim_input.strategy_mode).prime_age_max

PurchasableInPass2(p, g) ==
    /\ PurchasableNow(p, g)
    /\ OrElse(p.age, 0) >= get_mode_params(sim_input.strategy_mode).prime_age_min
    /\ OrElse(p.age, 0) <= get_mode_params(sim_input.strategy_mode).prime_age_max

\* C16: throughout buy_phase and at its return every group's count is at most
\* the larger of the group's maximum and the count it had in the squad
\* buy_phase received.
C16_NeverAboveMax ==
    InBuy => \A g \in Groups :
        count_group(squad, g) <= Max2(GroupMax(g), count_group(SquadAtBuyStart, g))

\* C16 witness: buy_phase returned below the total cap with a group at its
\* maximum while the pool still held a player of the group that pass 2 would
\* have bought.
C16_Witness ==
    /\ pc = "bought"
    /\ total_fees_paid < max_total_fees
    /\ \E g \in Groups :
          /\ count_group(squad, g) = GroupMax(g)
          /\ \E j \in 1..Len(market) : PurchasableInPass2(market[j], g)

\* C17: every bought player's fee is at most
\* int(original transfer budget * single-signing ratio of the mode), the
\* original budget being the one of the simulation input.
C17_SingleFeeCap ==
    \A k \in 1..Len(players_bought) :
        100 * OrElse(players_bought[k].market_value, 0)
            <= sim_input.transfer_budget
                 * (CASE sim_input.strategy_mode = "balanced"     -> 40
                      [] sim_input.strategy_mode = "conservative" -> 25
                      [] sim_input.strategy_mode = "win_now"      -> 60)

\* C17 witness: buy_phase returned having bought a player of a group while
\* the pool held a dearer player of that group, within the remaining transfer
\* budget but over the single-signing cap; sales had raised the remaining
\* budget over the original one.
C17_Witness ==
    /\ pc = "bought"
    /\ transfer_budget + total_fees_paid > sim_input.transfer_budget
    /\ \E k \in 1..Len(players_bought), j \in 1..Len(market) :
          /\ get_position_group(market[j].position)
                = get_position_group(players_bought[k].position)
          /\ OrElse(market[j].market_value, 0) > max_single_fee
          /\ OrElse(market[j].market_value, 0) <= transfer_budget

\* C18 (as stated): a purchase of pass 1 is made for the first group in the
\* order GK, DEF, MID, ATT that is below its minimum and has a player in the
\* pool that would be bought now.
C18_EarlierGapsFirst ==
    [][(pc = "p1_for" /\ Len(players_bought') > Len(players_bought))
          => \A h \in 1..(gi - 1) :
                ~(/\ count_group(squad, GroupOrder[h]) < GroupMin(GroupOrder[h])
                  /\ \E j \in 1..Len(market) :
                        PurchasableNow(market[j], GroupOrder[h]))]_vars

\* C19 (as stated): a decline sale leaves its group with strictly more
\* players than the group's minimum.
C19_DeclineLeavesAboveMin ==
    [][pc = "sell_rule1"
          => \A g \in Groups :
                count_group(squad', g) < count_group(squad, g)
                    => count_group(squad', g) > GroupMin(g)]_vars

\* The for loop stands at a group it attempts: below the minimum in pass 1,
\* below the maximum in pass 2.
Attempting ==
    \/ pc = "p1_for" /\ count_group(squad, GroupOrder[gi]) < GroupMin(GroupOrder[gi])
    \/ pc = "p2_for" /\ count_group(squad, GroupOrder[gi]) < GroupMax(GroupOrder[gi])

\* Pool player p passes every filter of the attempt the loop stands at.
PassesNow(p) ==
    IF pc = "p1_for" THEN PurchasableNow(p, GroupOrder[gi])
                     ELSE PurchasableInPass2(p, GroupOrder[gi])

\* market[j] passes, and no passing pool player has a higher value, or the
\* same value and an earlier place in the pool.
BestPassing(j) ==
    /\ PassesNow(market[j])
    /\ \A i \in 1..Len(market) :
          PassesNow(market[i])
              => \/ OrElse(market[i].market_value, 0) < OrElse(market[j].market_value, 0)
                 \/ /\ OrElse(market[i].market_value, 0) = OrElse(market[j].market_value, 0)
                    /\ i >= j

\* C20: an attempt buys the passing pool player of the group with the highest
\* value, the earliest in the pool among equals, debits its fee and adds its
\* salary; it buys nothing exactly when no pool player passes.
C20_BuysBestPassing ==
    [][Attempting
          => IF \E j \in 1..Len(market) : PassesNow(market[j])
             THEN \E j \in 1..Len(market) :
                     /\ BestPassing(j)
                     /\ players_bought' = Append(players_bought, market[j])
                     /\ transfer_budget' =
                           transfer_budget - OrElse(market[j].market_value, 0)
                     /\ salary_used' =
                           salary_used + estimate_salary(market[j].market_value)
             ELSE UNCHANGED <<players_bought, transfer_budget, salary_used>>]_vars

\* A purchase was made while the pool held a second player of the group with
\* the same value, later in the pool; that player is still there.
C20_Witness ==
    /\ InBuy
    /\ Len(players_bought) > 0
    /\ LET b  == players_bought[Len(players_bought)]
           p0 == TransferMarketInit(market_players)
       IN  \E i \in 1..Len(market) :
              /\ get_position_group(market[i].position) = get_position_group(b.position)
              /\ OrElse(market[i].market_value, 0) = OrElse(b.market_value, 0)
              /\ \E x, y \in 1..Len(p0) :
                    /\ p0[x].player_id = b.player_id
                    /\ p0[y].player_id = market[i].player_id
                    /\ x < y

\* The players bought in pass 2: those after the first pass1_bought.
BoughtInPass2 ==
    IF pc \in {"p2_while", "p2_for", "bought", "aged", "done"}
    THEN SubSeq(players_bought, pass1_bought + 1, Len(players_bought))
    ELSE <<>>

\* The inclusive prime-age range the claim gives for each mode.
StatedPrimeRange(mode) ==
    CASE mode = "balanced"     -> [min |-> 22, max |-> 27]
      [] mode = "conservative" -> [min |-> 19, max |-> 24]
      [] mode = "win_now"      -> [min |-> 22, max |-> 30]

\* C21: every player bought in pass 2 has an age, and it lies in the mode's
\* prime-age range; an attempt of pass 1 buys whenever a pool player of the
\* group passes the fee, cap and salary filters, whatever its age.
C21_PrimeAgeInPass2Only ==
    /\ [](\A k \in 1..Len(BoughtInPass2) :
             /\ BoughtInPass2[k].age # None
             /\ BoughtInPass2[k].age >= StatedPrimeRange(sim_input.strategy_mode).min
             /\ BoughtInPass2[k].age <= StatedPrimeRange(sim_input.strategy_mode).max)
    /\ [][(pc = "p1_for"
             /\ count_group(squad, GroupOrder[gi]) < GroupMin(GroupOrder[gi])
             /\ \E j \in 1..Len(market) : PurchasableNow(market[j], GroupOrder[gi]))
          => (Len(players_bought') = Len(players_bought) + 1)]_vars

\* Pass 1 bought a player without an age and one older than the range, and
\* pass 2 bought a player as well.
C21_Witness ==
    /\ Len(BoughtInPass2) > 0
    /\ \E k \in 1..pass1_bought : players_bought[k].age = None
    /\ \E k \in 1..pass1_bought :
          /\ players_bought[k].age # None
          /\ players_bought[k].age > StatedPrimeRange(sim_input.strategy_mode).max

\* sell_phase has returned: players_sold is the list it returned.
SellReturned == pc \notin {"loaded", "failed", "market", "sell_rule1", "sell_rule2"}

\* The place of a player of the input squad in that squad.
PlaceInSquadBefore(player) ==
    CHOOSE k \in 1..Len(squad_before) : squad_before[k].player_id = player.player_id

\* The place of a player's group in the order GK, DEF, MID, ATT.
GroupPlace(player) ==
    CHOOSE k \in 1..Len(GroupOrder) : GroupOrder[k] = get_position_group(player.position)

\* C22: the sold list is the decline sells, by non-increasing age with equal
\* ages in the order of the input squad, followed by the bloat sells, by group
\* in the order GK, DEF, MID, ATT and by non-decreasing value within a group.
C22_SoldListOrder ==
    SellReturned =>
        /\ Len(players_sold) = decline_sold_count + bloat_sold_count
        /\ \A i, j \in 1..decline_sold_count :
              i < j => \/ OrElse(players_sold[i].age, 0) > OrElse(players_sold[j].age, 0)
                       \/ /\ players_sold[i].age = players_sold[j].age
                          /\ PlaceInSquadBefore(players_sold[i])
                                < PlaceInSquadBefore(players_sold[j])
        /\ \A i, j \in (decline_sold_count + 1)..Len(players_sold) :
              i < j => \/ GroupPlace(players_sold[i]) < GroupPlace(players_sold[j])
                       \/ /\ GroupPlace(players_sold[i]) = GroupPlace(players_sold[j])
                          /\ OrElse(players_sold[i].market_value, 0)
                                <= OrElse(players_sold[j].market_value, 0)

\* Two decline sells of the same age, followed by bloat sells from two groups,
\* two of them from one group at different values.
C22_Witness ==
    /\ SellReturned
    /\ \E i, j \in 1..decline_sold_count :
          i < j /\ players_sold[i].age = players_sold[j].age
    /\ \E i, j \in (decline_sold_count + 1)..Len(players_sold) :
          GroupPlace(players_sold[i]) < GroupPlace(players_sold[j])
    /\ \E i, j \in (decline_sold_count + 1)..Len(players_sold) :
          /\ GroupPlace(players_sold[i]) = GroupPlace(players_sold[j])
          /\ OrElse(players_sold[i].market_value, 0)
                < OrElse(players_sold[j].market_value, 0)

\* v * 0.85 with the fraction dropped.
TruncPct85(v) ==
    IF v >= 0 THEN (v * 85) \div 100 ELSE -(((-v) * 85) \div 100)

\* C23 (as stated): the budget sell_phase returns is the budget passed in plus,
\* for each sold player, its value (absent = 0) times 0.85 rounded to the
\* nearest whole unit.
C23_SellCreditRounded ==
    pc \in {"sell_rule2", "buy_start"} =>
        transfer_budget = sim_input.transfer_budget
            + SumSeq([k \in 1..Len(players_sold) |->
                         RoundPct85(OrElse(players_sold[k].market_value, 0))], 1)

\* C23 (amended): the budget sell_phase returns, and the budget between its two
\* rules, is the budget passed in plus, for each player sold so far, its value
\* (absent = 0) times 0.85 with the fraction dropped.
C23_SellCreditTruncated ==
    pc \in {"sell_rule2", "buy_start"} =>
        transfer_budget = sim_input.transfer_budget
            + SumSeq([k \in 1..Len(players_sold) |->
                         TruncPct85(OrElse(players_sold[k].market_value, 0))], 1)

\* sell_phase has returned a decline sale and a bloat sale, one of a player
\* without a value, one of a player whose value times 0.85 is not whole.
C23_Witness ==
    /\ pc = "buy_start"
    /\ decline_sold_count > 0
    /\ bloat_sold_count > 0
    /\ \E k \in 1..Len(players_sold) : players_sold[k].market_value = None
    /\ \E k \in 1..Len(players_sold) :
          /\ players_sold[k].market_value # None
          /\ (players_sold[k].market_value * 85) % 100 # 0

\* C24 (as stated): the squad sell_phase returns has, in every group, at most
\* the group's maximum less 2 players.
C24_TwoOpenSlots ==
    pc = "buy_start" => \A g \in Groups : count_group(squad, g) <= GroupMax(g) - 2

(***************************************************************************)
(* A sequence of run_simulation calls on one DATA_DIR.                     *)
(***************************************************************************)
\* Calls followed in a sequence.
MaxCalls == 3

ClubIds == {LEAGUE_TOP_CLUBS[k].id : k \in 1..Len(LEAGUE_TOP_CLUBS)}

\* No call has been made: the market cache file does not exist, and any of
\* the clubs' squad files may.
PoolInit ==
    /\ sim_input = [team_name |-> "", transfer_budget |-> 0,
                    salary_budget |-> 0, strategy_mode |-> "balanced"]
    /\ market_players = <<>>
    /\ error = NoError
    /\ phase_arg = <<>>
    /\ market = <<>>
    /\ squad_before = <<>>
    /\ squad = <<>>
    /\ players_sold = <<>>
    /\ decline_sold_count = 0
    /\ bloat_sold_count = 0
    /\ transfer_budget = 0
    /\ players_bought = <<>>
    /\ pass1_bought = 0
    /\ salary_used = 0
    /\ total_fees_paid = 0
    /\ made_purchase = FALSE
    /\ gi = 1
    /\ squad_after = <<>>
    /\ kpis = NoKpis
    /\ pc = "calls"
    /\ market_cache = NoFile
    /\ club_cached \in SUBSET ClubIds
    /\ caller = NoClub
    /\ pool_calls = 0

\* engine.py lines 40-46 of one call for the k-th club: routes.py has resolved
\* the club, its squad is loaded, and the market pool is loaded or scraped.
LoadMarketPool(k) ==
    /\ pc = "calls"
    /\ pool_calls < MaxCalls
    /\ LET club == LEAGUE_TOP_CLUBS[k]
           r    == load_or_scrape_market_pool(market_cache, club_cached, club)
       IN  /\ caller' = club
           /\ sim_input' = [sim_input EXCEPT !.team_name = club.name]
           /\ squad' = ClubSquad(k)
           /\ market_players' = r.players
           /\ market_cache' = r.cache
    /\ pool_calls' = pool_calls + 1
    /\ UNCHANGED <<error, phase_arg, squad_before, players_sold, decline_sold_count,
                   bloat_sold_count, transfer_budget, market, players_bought,
                   pass1_bought, salary_used, total_fees_paid, made_purchase, gi,
                   squad_after, kpis, pc, club_cached>>

PoolNext == \E k \in 1..Len(LEAGUE_TOP_CLUBS) : LoadMarketPool(k)

PoolSpec == PoolInit /\ [][PoolNext]_vars

\* The ids of the players of a list.
IdsOf(players) == {players[k].player_id : k \in 1..Len(players)}

\* C25 (as stated): the market pool of every call holds the players of all
\* the other clubs of the league, and none of the calling club.
C25_PoolIsAllOtherClubs ==
    pool_calls > 0 =>
        IdsOf(market_players) =
            UNION {IdsOf(ClubSquad(k)) :
                      k \in {j \in 1..Len(LEAGUE_TOP_CLUBS) : LEAGUE_TOP_CLUBS[j] # caller}}

\* C26 (as stated): the KPIs' salary_used is the estimated salary of
\* squad_after, and salary_budget_remaining is the salary budget less it.
C26_SalaryOfFinalSquad ==
    pc = "done" =>
        /\ kpis.salary_used = total_salary(squad_after)
        /\ kpis.salary_budget_remaining
              = sim_input.salary_budget - total_salary(squad_after)

\* The bloat target as the claim gives it: max(groupMin, groupMax - 2).
StatedBloatTarget(g) == Max2(GroupMin(g), GroupMax(g) - 2)

\* Protected as the claim gives it: age < 21 and market value >= 3,000,000.
StatedProtected(player) ==
    /\ player.age # None
    /\ player.age < 21
    /\ player.market_value # None
    /\ player.market_value >= 3000000

\* The players of group g in a list.
OfGroup(players, g) ==
    {k \in 1..Len(players) : get_position_group(players[k].position) = g}

C28_BudgetAccounting ==
    pc = "done" =>
        /\ kpis.transfer_budget_remaining = sim_input.transfer_budget - kpis.net_spend
        /\ kpis.transfer_budget_remaining = transfer_budget
        /\ transfer_budget =
              sim_input.transfer_budget
                 + SumSeq([k \in 1..Len(players_sold) |->
                              TruncPct85(OrElse(players_sold[k].market_value, 0))], 1)
                 - SumSeq([k \in 1..Len(players_bought) |->
                              OrElse(players_bought[k].market_value, 0)], 1)

\* A completed run that sold a player whose value times 0.85 is not whole and
\* bought in both passes.
C28_Witness ==
    /\ pc = "done"
    /\ \E k \in 1..Len(players_sold) :
          /\ players_sold[k].market_value # None
          /\ (players_sold[k].market_value * 85) % 100 # 0
    /\ pass1_bought > 0
    /\ Len(players_bought) > pass1_bought

\* The ids of the input squad and of the market pool list are unique and no
\* id is in both.
UniqueDisjointIds ==
    /\ Cardinality(IdsOf(squad_before)) = Len(squad_before)
    /\ Cardinality(IdsOf(market_players)) = Len(market_players)
    /\ IdsOf(squad_before) \cap IdsOf(market_players) = {}

\* C29: with unique and disjoint ids, the ids of squad_after are those of
\* squad_before without the sold and with the bought; the sold come from
\* squad_before, the bought from the pool, none is both, and squad_after
\* names no id twice.
C29_SquadConservation ==
    (pc = "done" /\ UniqueDisjointIds) =>
        /\ IdsOf(squad_after)
              = (IdsOf(squad_before) \ IdsOf(players_sold)) \cup IdsOf(players_bought)
        /\ IdsOf(players_sold) \subseteq IdsOf(squad_before)
        /\ IdsOf(players_bought) \subseteq IdsOf(market_players)
        /\ IdsOf(players_sold) \cap IdsOf(players_bought) = {}
        /\ Cardinality(IdsOf(squad_after)) = Len(squad_after)
        /\ Len(squad_after)
              = Len(squad_before) - Len(players_sold) + Len(players_bought)

\* A completed run on unique and disjoint ids that sold under both rules and
\* bought in both passes.
C29_Witness ==
    /\ pc = "done"
    /\ UniqueDisjointIds
    /\ decline_sold_count > 0
    /\ bloat_sold_count > 0
    /\ pass1_bought > 0
    /\ Len(players_bought) > pass1_bought

\* The budget engine.py passes to buy_phase: the one sell_phase returned.
BudgetPassedToBuy ==
    sim_input.transfer_budget
        + SumSeq([k \in 1..Len(players_sold) |-> sell_fee(players_sold[k])], 1)

\* No player of the market pool list has a negative value.
PoolValuesNonNegative ==
    \A k \in 1..Len(market_players) :
        market_players[k].market_value = None \/ market_players[k].market_value >= 0

\* C30: when the budget passed to buy_phase and the pool's values are not
\* negative, the transfer budget is never negative during buy_phase or at its
\* return, and it is the budget passed in less the fees of the players bought.
C30_BudgetNeverNegative ==
    (InBuy /\ BudgetPassedToBuy >= 0 /\ PoolValuesNonNegative) =>
        /\ transfer_budget >= 0
        /\ transfer_budget = BudgetPassedToBuy - FeesOf(players_bought)

\* buy_phase has spent the whole budget it was passed, on purchases of both
\* passes, and a pool player with a price is left.
C30_Witness ==
    /\ pc = "bought"
    /\ BudgetPassedToBuy > 0
    /\ PoolValuesNonNegative
    /\ transfer_budget = 0
    /\ Len(players_bought) > 0
    /\ \E j \in 1..Len(market) : OrElse(market[j].market_value, 0) > 0

====
